---- MODULE Spec2Model ----
(***************************************************************************)
(* Session / navigation engine of the arabic-bible reader (App.tsx):       *)
(* the open tabs, the active tab, the search state, the history log and    *)
(* the chapter navigator findAdjacentChapter over the hierarchical corpus, *)
(* and the debounced scroll positions of VerseDisplay.tsx.                 *)
(***************************************************************************)
EXTENDS Integers, Sequences, FiniteSets, TLC

VARIABLES
  bibleData,        \* the corpus (import bibleData)
  tabs,             \* useState<Tab[]>
  activeTabId,      \* useState<string>
  searchQuery,      \* useState('')
  searchMode,       \* useState<SearchMode>('partial')
  selected,         \* selectedTestament / selectedBook / selectedChapter
  history,          \* the log written by saveToHistory
  scrollPositions,  \* useState<Record<string, number>>
  now,              \* the value Date.now() returned last
  lastOp,           \* the handler that ran last, with its arguments
  navCur,           \* navigator walk: the coordinate the walk stands on
  navFrom,          \* navigator walk: argument of the last findAdjacentChapter
  navDir,           \* navigator walk: direction of the last call
  navRes,           \* navigator walk: result of the last call
  displays,         \* VerseDisplay instances: scrollTop, scrollTimeout, closure
  timers,           \* pending setTimeout callbacks, in the order they were set
  timerSeq,         \* the handle setTimeout returned last
  savedPositions    \* the store saveScrollPosition writes

vars == <<bibleData, tabs, activeTabId, searchQuery, searchMode, selected,
          history, scrollPositions, now, lastOp, navCur, navFrom, navDir, navRes,
          displays, timers, timerSeq, savedPositions>>

sessionVars == <<tabs, activeTabId, searchQuery, searchMode, selected,
                 history, scrollPositions, now, lastOp>>

navVars == <<navCur, navFrom, navDir, navRes>>

scrollVars == <<displays, timers, timerSeq, savedPositions>>

----------------------------------------------------------------------------
(* Bounds *)

\* the corpora of the navigator walk have at most this many chapters in all
MaxCorpusChapters == 4
\* the log holds at most this many entries
MaxHistory == 2
\* setTimeout is called at most this many times
MaxTimers == 2

----------------------------------------------------------------------------
(* Corpus: Testament { name, books }, Book { name, chapters },             *)
(* Chapter { number, verses }, Verse { number, text }.                     *)

NoName == <<"", 0, 0>>

TestamentName(ti) == <<"T", ti, 0>>

BookName(ti, bi) == <<"B", ti, bi>>

\* a testament / book name that occurs in no corpus
UnknownName == <<"?", 0, 0>>

VersesOfChapter(ti, bi, c) == << [number |-> 1, text |-> <<ti, bi, c>>] >>

\* shape[ti][bi] is the number of chapters of book bi of testament ti
MkCorpus(shape) ==
  [ti \in 1..Len(shape) |->
     [name  |-> TestamentName(ti),
      books |-> [bi \in 1..Len(shape[ti]) |->
                   [name     |-> BookName(ti, bi),
                    chapters |-> [c \in 1..shape[ti][bi] |->
                                    [number |-> c,
                                     verses |-> VersesOfChapter(ti, bi, c)]]]]]]

\* the ways to cut n chapters into books: the sequences of positive chapter
\* counts that add up to n
RECURSIVE BookCuts(_)
BookCuts(n) ==
  {<<n>>} \cup UNION {{<<k>> \o rest : rest \in BookCuts(n - k)} : k \in 1..(n - 1)}

\* the ways to cut n chapters into testaments of books
RECURSIVE TestamentCuts(_)
TestamentCuts(n) ==
  {<<books>> : books \in BookCuts(n)}
    \cup UNION {{<<books>> \o rest : books \in BookCuts(k), rest \in TestamentCuts(n - k)} :
                 k \in 1..(n - 1)}

\* every corpus of at most MaxCorpusChapters chapters
Corpora == UNION {{MkCorpus(shape) : shape \in TestamentCuts(n)} : n \in 1..MaxCorpusChapters}

\* Testament "A" {Genesis: 2 chapters}, Testament "B" {Exodus: 1 chapter}
ExampleCorpus == MkCorpus(<< <<2>>, <<1>> >>)

\* every (testament, book, chapter) of the corpus, as a set
Coordinates(data) ==
  UNION {UNION {{[testament |-> data[ti].name, book |-> data[ti].books[bi].name,
                  chapter |-> data[ti].books[bi].chapters[c].number] :
                   c \in 1..Len(data[ti].books[bi].chapters)} :
                bi \in 1..Len(data[ti].books)} :
         ti \in 1..Len(data)}

----------------------------------------------------------------------------
(* Array helpers *)

\* Array.prototype.findIndex on names, 1-based; 0 when no element matches (-1)
FindIndexByName(seq, name) ==
  IF \E i \in 1..Len(seq) : seq[i].name = name
  THEN CHOOSE i \in 1..Len(seq) :
         /\ seq[i].name = name
         /\ \A j \in 1..(i - 1) : seq[j].name # name
  ELSE 0

MutLookupAnyChapter(data, testament, book, chapter) ==
  LET ti == FindIndexByName(data, testament) IN
  IF ti = 0 THEN <<>>
  ELSE LET bi == FindIndexByName(data[ti].books, book) IN
       IF bi = 0 THEN <<>>
       ELSE LET chs == data[ti].books[bi].chapters IN
            IF \E k \in 1..Len(chs) : chs[k].number = chapter
            THEN chs[CHOOSE k \in 1..Len(chs) : chs[k].number = chapter].verses
            ELSE chs[1].verses

\* bibleData.find(t)?.books.find(b)?.chapters.find(c)?.verses || []
LookupVerses(data, testament, book, chapter) ==
  LET ti == FindIndexByName(data, testament) IN
  IF ti = 0 THEN <<>>
  ELSE LET bi == FindIndexByName(data[ti].books, book) IN
       IF bi = 0 THEN <<>>
       ELSE LET chs == data[ti].books[bi].chapters IN
            IF \E k \in 1..Len(chs) : chs[k].number = chapter
            THEN chs[CHOOSE k \in 1..Len(chs) : chs[k].number = chapter].verses
            ELSE <<>>

----------------------------------------------------------------------------
(* Chapter navigator *)

Some(t, b, c) == [kind |-> "some", testament |-> t, book |-> b, chapter |-> c]
Null == [kind |-> "null", testament |-> NoName, book |-> NoName, chapter |-> 0]
\* a TypeError raised by reading a property of undefined
Throws == [kind |-> "throws", testament |-> NoName, book |-> NoName, chapter |-> 0]

MutNoTestamentCrossing(data, testament, book, chapter, direction) ==
  LET ti == FindIndexByName(data, testament)
      bi == FindIndexByName(data[ti].books, book)
      nb == Len(data[ti].books)
  IN
  IF direction = "next"
  THEN IF chapter < Len(data[ti].books[bi].chapters) THEN Some(testament, book, chapter + 1)
       ELSE IF bi < nb THEN Some(testament, data[ti].books[bi + 1].name, 1)
       ELSE Null
  ELSE IF chapter > 1 THEN Some(testament, book, chapter - 1)
       ELSE IF bi > 1
            THEN Some(testament, data[ti].books[bi - 1].name,
                      Len(data[ti].books[bi - 1].chapters))
       ELSE Null

MutPrevToFirstChapter(data, testament, book, chapter, direction) ==
  LET ti == FindIndexByName(data, testament)
      bi == FindIndexByName(data[ti].books, book)
      nb == Len(data[ti].books)
  IN
  IF direction = "next"
  THEN IF chapter < Len(data[ti].books[bi].chapters) THEN Some(testament, book, chapter + 1)
       ELSE IF bi < nb THEN Some(testament, data[ti].books[bi + 1].name, 1)
       ELSE IF ti < Len(data)
            THEN Some(data[ti + 1].name, data[ti + 1].books[1].name, 1)
       ELSE Null
  ELSE IF chapter > 1 THEN Some(testament, book, chapter - 1)
       ELSE IF bi > 1 THEN Some(testament, data[ti].books[bi - 1].name, 1)
       ELSE IF ti > 1
            THEN Some(data[ti - 1].name,
                      data[ti - 1].books[Len(data[ti - 1].books)].name, 1)
       ELSE Null

MutWrapAround(data, testament, book, chapter, direction) ==
  LET ti == FindIndexByName(data, testament)
      bi == FindIndexByName(data[ti].books, book)
      nb == Len(data[ti].books)
      lastTestament == data[Len(data)]
      lastBook == lastTestament.books[Len(lastTestament.books)]
  IN
  IF direction = "next"
  THEN IF chapter < Len(data[ti].books[bi].chapters) THEN Some(testament, book, chapter + 1)
       ELSE IF bi < nb THEN Some(testament, data[ti].books[bi + 1].name, 1)
       ELSE IF ti < Len(data)
            THEN Some(data[ti + 1].name, data[ti + 1].books[1].name, 1)
       ELSE Some(data[1].name, data[1].books[1].name, 1)
  ELSE IF chapter > 1 THEN Some(testament, book, chapter - 1)
       ELSE IF bi > 1
            THEN Some(testament, data[ti].books[bi - 1].name,
                      Len(data[ti].books[bi - 1].chapters))
       ELSE IF ti > 1
            THEN Some(data[ti - 1].name,
                      data[ti - 1].books[Len(data[ti - 1].books)].name,
                      Len(data[ti - 1].books[Len(data[ti - 1].books)].chapters))
       ELSE Some(lastTestament.name, lastBook.name, Len(lastBook.chapters))

findAdjacentChapter(data, testament, book, chapter, direction) ==
  LET ti == FindIndexByName(data, testament) IN
  IF ti = 0 THEN Throws              \* bibleData[-1].books
  ELSE
  LET currentTestament == data[ti]
      bi == FindIndexByName(currentTestament.books, book)
      nb == Len(currentTestament.books)
  IN
  IF direction = "next"
  THEN IF bi = 0 THEN Throws         \* currentBook.chapters on undefined
       ELSE IF chapter < Len(currentTestament.books[bi].chapters)
            THEN Some(testament, book, chapter + 1)
       ELSE IF bi < nb
            THEN Some(testament, currentTestament.books[bi + 1].name, 1)
       ELSE IF ti < Len(data)
            THEN Some(data[ti + 1].name, data[ti + 1].books[1].name, 1)
       ELSE Null
  ELSE IF chapter > 1 THEN Some(testament, book, chapter - 1)
       ELSE IF bi > 1
            THEN LET prevBook == currentTestament.books[bi - 1] IN
                 Some(testament, prevBook.name, Len(prevBook.chapters))
       ELSE IF ti > 1
            THEN LET prevTestament == data[ti - 1]
                     lastBook == prevTestament.books[Len(prevTestament.books)]
                 IN Some(prevTestament.name, lastBook.name, Len(lastBook.chapters))
       ELSE Null

----------------------------------------------------------------------------
(* Tabs *)

Id(kind, t, b, c, stamp) ==
  [kind |-> kind, testament |-> t, book |-> b, chapter |-> c, stamp |-> stamp]

NavigationId == Id("navigation", NoName, NoName, 0, 0)       \* id: 'navigation'
SearchId == Id("search", NoName, NoName, 0, 0)               \* id: 'search'
\* the string "search-input": the type of the search tab, the id of no tab
SearchInputId == Id("search-input", NoName, NoName, 0, 0)
\* `verse-${testament}-${book}-${chapter}-initial`: the stamp "initial" is -1
InitialStamp == -1
VerseId(t, b, c, stamp) == Id("verse", t, b, c, stamp)
SearchResultsId(stamp) == Id("search-results", NoName, NoName, 0, stamp)

Title(book, chapter, text) == [book |-> book, chapter |-> chapter, text |-> text]

\* content: {} ; absent fields are NoName / 0 / <<>> / ""
EmptyContent ==
  [testament |-> NoName, book |-> NoName, chapter |-> 0, verses |-> <<>>,
   highlightedVerse |-> 0, searchQuery |-> "", searchResults |-> <<>>]

VerseContent(t, b, c, verses, hv, query) ==
  [testament |-> t, book |-> b, chapter |-> c, verses |-> verses,
   highlightedVerse |-> hv, searchQuery |-> query, searchResults |-> <<>>]

SearchContent(query, results) ==
  [testament |-> NoName, book |-> NoName, chapter |-> 0, verses |-> <<>>,
   highlightedVerse |-> 0, searchQuery |-> query, searchResults |-> results]

\* searchOptions is "none" on a tab that has no searchOptions property
Tab(id, type, title, content, searchOptions) ==
  [id |-> id, type |-> type, title |-> title, content |-> content,
   searchOptions |-> searchOptions, isCollapsed |-> FALSE]

navigationTab == Tab(NavigationId, "navigation", Title(NoName, 0, "books"), EmptyContent, "none")

searchTab == Tab(SearchId, "search-input", Title(NoName, 0, "search"), EmptyContent, "none")

\* the tab built when getLastTab() returns nothing
DefaultInitialTab(data) ==
  LET firstTestament == data[1]
      firstBook == firstTestament.books[1]
      firstChapter == firstBook.chapters[1]
  IN Tab(VerseId(firstTestament.name, firstBook.name, firstChapter.number, InitialStamp),
         "verse", Title(firstBook.name, firstChapter.number, ""),
         VerseContent(firstTestament.name, firstBook.name, firstChapter.number,
                      firstChapter.verses, 0, ""),
         "none")

\* searchBible(query, bibleData, searchMode): the hit list, left uninterpreted
searchBible(query, data, mode) == << [query |-> query, mode |-> mode] >>

\* the tab handleSearch builds
SearchResultsTab(query, data, mode, stamp) ==
  Tab(SearchResultsId(stamp), "search-results", Title(NoName, 0, query),
      SearchContent(query, searchBible(query, data, mode)), mode)

\* the tab handleVerseSelection builds
VerseTab(t, b, c, verses, hv, query, stamp) ==
  Tab(VerseId(t, b, c, stamp), "verse", Title(b, c, ""),
      VerseContent(t, b, c, verses, hv, IF hv # 0 THEN query ELSE ""), "none")

\* saveToHistory(tab): appendHistory(tab snapshot)
saveToHistory(h, tab) == Append(h, tab)

TabIds(ts) == {ts[i].id : i \in 1..Len(ts)}

----------------------------------------------------------------------------
(* Inputs *)

Queries == {"", "q"}
SearchModes == {"partial", "exact"}
Directions == {"prev", "next"}
\* highlightedVerse: 0 when the argument is omitted (onChapterSelect), the
\* verse of a hit when a search-results tab is open (onResultClick)
Highlights(ts) ==
  {0} \cup (IF \E i \in 1..Len(ts) : ts[i].type = "search-results" /\ ts[i].content.searchResults # <<>>
           THEN {1} ELSE {})

\* the coordinates a caller may pass: those of the corpus, a chapter number
\* the book has not, a testament name the corpus has not and a book name the
\* testament has not
InputCoordinates(data) ==
  Coordinates(data)
    \cup {[testament |-> data[1].name, book |-> data[1].books[1].name,
           chapter |-> Len(data[1].books[1].chapters) + 1],
          [testament |-> UnknownName, book |-> data[1].books[1].name, chapter |-> 1],
          [testament |-> data[1].name, book |-> UnknownName, chapter |-> 1]}

\* the corpora a session runs on
SessionCorpora == {MkCorpus(<< <<1>>, <<1>> >>)}

\* what getLastTab() may return from an earlier session (stamp 0: before this
\* session's clock): a verse tab or a search-results tab
LastTabs(data) ==
  LET lt == data[Len(data)]
      lb == lt.books[Len(lt.books)]
      lc == lb.chapters[Len(lb.chapters)]
  IN {VerseTab(lt.name, lb.name, lc.number, lc.verses, 0, "", 0),
      SearchResultsTab("q", data, "exact", 0)}

\* an entry of the stored log whose testament the corpus no longer has
StaleEntry(data) ==
  VerseTab(UnknownName, data[1].books[1].name, 1,
           << [number |-> 1, text |-> <<0, 0, 0>>] >>, 0, "", 0)

\* id: the tab id a tab handler was called with; info: what it was called on;
\* done: it passed its early returns; entry: the position in the log of the
\* history entry clicked (0 when none)
Op(name, id, info, done, entry) ==
  [op |-> name, id |-> id, info |-> info, done |-> done, entry |-> entry]

NoId == Id("", NoName, NoName, 0, 0)

----------------------------------------------------------------------------
(* Initialization effect *)

\* getScrollPositions(): the map an earlier session left, with an offset for
\* the tab that session had scrolled
StoredScrollPositions(log) ==
  [id \in {log[i].id : i \in {j \in 1..Len(log) : log[j].type = "verse"}} |-> 40]

InitSession(data, initialTab, log) ==
  /\ tabs = <<navigationTab, searchTab, initialTab>>
  /\ activeTabId = initialTab.id
  /\ selected = [testament |-> data[1].name, book |-> data[1].books[1].name,
                 chapter |-> data[1].books[1].chapters[1].number]
  /\ searchQuery = ""
  /\ searchMode = "partial"
  /\ history = log
  /\ scrollPositions = StoredScrollPositions(log)
  /\ now = 0
  /\ lastOp = Op("init", NoId, "", TRUE, 0)
  /\ displays = <<>>
  /\ timers = <<>>
  /\ timerSeq = 0
  /\ savedPositions = StoredScrollPositions(log)

NavIdle ==
  /\ navCur = Null
  /\ navFrom = Null
  /\ navDir = ""
  /\ navRes = Null

Init ==
  /\ bibleData \in SessionCorpora
  /\ \/ InitSession(bibleData, DefaultInitialTab(bibleData), <<>>)
     \/ \E lastTab \in LastTabs(bibleData) : InitSession(bibleData, lastTab, <<lastTab>>)
     \/ InitSession(bibleData, DefaultInitialTab(bibleData), <<StaleEntry(bibleData)>>)
  /\ NavIdle

----------------------------------------------------------------------------
(* Handlers *)

\* room left by the bound of the model for k more log entries
Room(k) == Len(history) + k <= MaxHistory

\* what Date.now() may return: the millisecond it returned last or a later
\* one (now + 1 stands for every later one); this session's clock is past
\* every stamp of an earlier session
Clock == IF now = 0 THEN {1} ELSE {now, now + 1}

\* onChange: setSearchQuery
SetSearchQuery(query) ==
  /\ searchQuery' = query
  /\ lastOp' = Op("setSearchQuery", NoId, "", TRUE, 0)
  /\ UNCHANGED <<bibleData, tabs, activeTabId, searchMode, selected, history,
                 scrollPositions, now>>
  /\ UNCHANGED navVars
  /\ UNCHANGED scrollVars

\* onSearchModeChange: setSearchMode
SetSearchMode(mode) ==
  /\ searchMode' = mode
  /\ lastOp' = Op("setSearchMode", NoId, "", TRUE, 0)
  /\ UNCHANGED <<bibleData, tabs, activeTabId, searchQuery, selected, history,
                 scrollPositions, now>>
  /\ UNCHANGED navVars
  /\ UNCHANGED scrollVars

\* handleSearch after setSearchQuery(query): mode is the searchMode the
\* handler's closure holds
SearchBody(query, mode) ==
  IF query = ""
  THEN UNCHANGED <<tabs, activeTabId, history, now>>
  ELSE \E stamp \in Clock :
       LET newTab == SearchResultsTab(query, bibleData, mode, stamp) IN
       /\ now' = stamp
       /\ tabs' = Append(tabs, newTab)
       /\ activeTabId' = newTab.id
       /\ history' = saveToHistory(history, newTab)

handleSearch(query) ==
  /\ query # "" => Room(1)
  /\ searchQuery' = query
  /\ SearchBody(query, searchMode)
  /\ lastOp' = Op("handleSearch", NoId, "", query # "", 0)
  /\ UNCHANGED <<bibleData, searchMode, selected, scrollPositions>>
  /\ UNCHANGED navVars
  /\ UNCHANGED scrollVars

\* prev.map(tab => ({ ...tab, isCollapsed: false })).concat(verseTab)
WithVerseTab(ts, verseTab) ==
  Append([i \in 1..Len(ts) |-> [ts[i] EXCEPT !.isCollapsed = FALSE]], verseTab)

VerseSelectionBody(t, b, c, hv) ==
  LET verses == LookupVerses(bibleData, t, b, c) IN
  IF Len(verses) = 0
  THEN UNCHANGED <<tabs, activeTabId, history, now>>
  ELSE \E stamp \in Clock :
       LET verseTab == VerseTab(t, b, c, verses, hv, searchQuery, stamp) IN
       /\ now' = stamp
       /\ tabs' = WithVerseTab(tabs, verseTab)
       /\ activeTabId' = verseTab.id
       /\ history' = saveToHistory(history, verseTab)

handleVerseSelection(t, b, c, hv) ==
  /\ Len(LookupVerses(bibleData, t, b, c)) # 0 => Room(1)
  /\ VerseSelectionBody(t, b, c, hv)
  /\ lastOp' = Op("handleVerseSelection", NoId,
                   IF [testament |-> t, book |-> b, chapter |-> c] \in Coordinates(bibleData)
                   THEN "" ELSE "unresolved",
                   Len(LookupVerses(bibleData, t, b, c)) # 0, 0)
  /\ UNCHANGED <<bibleData, searchQuery, searchMode, selected, scrollPositions>>
  /\ UNCHANGED navVars
  /\ UNCHANGED scrollVars

\* the searchMode handleSearch reads when handleHistoryItemClick calls it right
\* after setSearchMode(stored): the state of the render that built the handler
ModeReadByReplay(stored, current) == current

handleHistoryItemClick(entry) ==
  LET historyEntry == history[entry] IN
  /\ UNCHANGED <<bibleData, selected, scrollPositions>>
  /\ UNCHANGED navVars
  /\ UNCHANGED scrollVars
  /\ IF historyEntry.type = "verse"
     THEN /\ Len(LookupVerses(bibleData, historyEntry.content.testament,
                              historyEntry.content.book,
                              historyEntry.content.chapter)) # 0 => Room(1)
          /\ VerseSelectionBody(historyEntry.content.testament, historyEntry.content.book,
                                historyEntry.content.chapter,
                                historyEntry.content.highlightedVerse)
          /\ UNCHANGED <<searchQuery, searchMode>>
     ELSE IF historyEntry.type = "search-results"
     THEN /\ historyEntry.content.searchQuery # "" => Room(1)
          /\ searchMode' = IF historyEntry.searchOptions # "none"
                           THEN historyEntry.searchOptions ELSE searchMode
          /\ searchQuery' = historyEntry.content.searchQuery
          /\ SearchBody(historyEntry.content.searchQuery,
                        ModeReadByReplay(historyEntry.searchOptions, searchMode))
     ELSE UNCHANGED <<tabs, activeTabId, history, searchQuery, searchMode, now>>
  /\ lastOp' = Op("handleHistoryItemClick", NoId, historyEntry.type, tabs' # tabs, entry)

MutUpdatedTabNewId(tab, adjacentChapter, verses) ==
  [tab EXCEPT !.id = VerseId(adjacentChapter.testament, adjacentChapter.book,
                             adjacentChapter.chapter, tab.id.stamp),
              !.title = Title(adjacentChapter.book, adjacentChapter.chapter, ""),
              !.content = VerseContent(adjacentChapter.testament, adjacentChapter.book,
                                       adjacentChapter.chapter, verses, 0, "")]

\* { ...tab, title, content: { testament, book, chapter, verses, highlightedVerse: null } }
UpdatedTab(tab, adjacentChapter, verses) ==
  [tab EXCEPT !.title = Title(adjacentChapter.book, adjacentChapter.chapter, ""),
              !.content = VerseContent(adjacentChapter.testament, adjacentChapter.book,
                                       adjacentChapter.chapter, verses, 0, "")]

\* prev.map(tab => tab.id === activeTabId ? updatedTab : tab)
NavigatedTabs(ts, active, adjacentChapter, verses) ==
  [i \in 1..Len(ts) |->
     IF ts[i].id = active THEN UpdatedTab(ts[i], adjacentChapter, verses) ELSE ts[i]]

\* the saveToHistory(updatedTab) calls of the map, in order
SavedByNavigation(h, ts, active, adjacentChapter, verses) ==
  h \o SelectSeq(NavigatedTabs(ts, active, adjacentChapter, verses),
                 LAMBDA tab : tab.id = active)

\* the verses handleChapterNavigation looks up, <<>> when it finds no target
NavigationVerses(t, b, c, direction) ==
  LET adjacentChapter == findAdjacentChapter(bibleData, t, b, c, direction) IN
  IF adjacentChapter.kind = "some"
  THEN LookupVerses(bibleData, adjacentChapter.testament, adjacentChapter.book,
                    adjacentChapter.chapter)
  ELSE <<>>

handleChapterNavigation(t, b, c, direction) ==
  LET adjacentChapter == findAdjacentChapter(bibleData, t, b, c, direction)
      verses == NavigationVerses(t, b, c, direction)
  IN
  /\ lastOp' = Op("handleChapterNavigation", NoId, direction, Len(verses) # 0, 0)
  /\ UNCHANGED <<bibleData, activeTabId, searchQuery, searchMode, scrollPositions, now>>
  /\ UNCHANGED navVars
  /\ UNCHANGED scrollVars
  /\ IF Len(verses) = 0
     THEN UNCHANGED <<tabs, history, selected>>
     ELSE /\ Len(SavedByNavigation(history, tabs, activeTabId, adjacentChapter, verses))
               <= MaxHistory
          /\ tabs' = NavigatedTabs(tabs, activeTabId, adjacentChapter, verses)
          /\ history' = SavedByNavigation(history, tabs, activeTabId, adjacentChapter, verses)
          /\ selected' = [testament |-> adjacentChapter.testament,
                          book |-> adjacentChapter.book,
                          chapter |-> adjacentChapter.chapter]

\* the (testament, book, chapter) props of the VerseDisplay of each verse tab,
\* which onNavigate hands to handleChapterNavigation
DisplayedCoordinates(ts) ==
  {[testament |-> ts[i].content.testament, book |-> ts[i].content.book,
    chapter |-> ts[i].content.chapter] : i \in {j \in 1..Len(ts) : ts[j].type = "verse"}}

MutNothingPermanent(ts, tabId) == FALSE

MutOnlyNavigationPermanent(ts, tabId) ==
  \E i \in 1..Len(ts) : ts[i].id = tabId /\ ts[i].type = "navigation"

\* tabs.find(t => t.id === tabId) is a navigation or search-input tab

IsPermanent(ts, tabId) ==
  /\ \E i \in 1..Len(ts) : ts[i].id = tabId
  /\ LET first == CHOOSE i \in 1..Len(ts) :
                    ts[i].id = tabId /\ \A j \in 1..(i - 1) : ts[j].id # tabId
     IN ts[first].type \in {"navigation", "search-input"}

\* tabs.filter(tab => tab.id !== tabId)
RemainingTabs(ts, tabId) == SelectSeq(ts, LAMBDA tab : tab.id # tabId)

MutKeepActive(ts, active, tabId) == active

ActiveAfterClose(ts, active, tabId) ==
  IF active = tabId
  THEN LET remainingTabs == RemainingTabs(ts, tabId) IN
       IF Len(remainingTabs) > 0 THEN remainingTabs[Len(remainingTabs)].id ELSE active
  ELSE active

\* the VerseDisplay of a closed tab is unmounted: its state is dropped
Unmounted(ds, tabId) == [i \in DOMAIN ds \ {tabId} |-> ds[i]]

\* and React sets its contentRef.current to null; the timers it had set stay
\* pending (no clearTimeout on unmount)
Detached(ts, tabId) ==
  [k \in 1..Len(ts) |-> IF ts[k].tabId = tabId THEN [ts[k] EXCEPT !.attached = FALSE]
                        ELSE ts[k]]

\* delete newPositions[tabId]
WithoutPosition(positions, tabId) ==
  [i \in DOMAIN positions \ {tabId} |-> positions[i]]

handleTabClose(tabId) ==
  /\ lastOp' = Op("handleTabClose", tabId,
                   IF activeTabId = tabId THEN "active" ELSE "inactive",
                   ~IsPermanent(tabs, tabId), 0)
  /\ UNCHANGED <<bibleData, searchQuery, searchMode, selected, history, now>>
  /\ UNCHANGED navVars
  /\ UNCHANGED <<timerSeq, savedPositions>>
  /\ IF IsPermanent(tabs, tabId)
     THEN UNCHANGED <<tabs, activeTabId, scrollPositions, displays, timers>>
     ELSE /\ tabs' = RemainingTabs(tabs, tabId)
          /\ activeTabId' = ActiveAfterClose(tabs, activeTabId, tabId)
          /\ scrollPositions' = WithoutPosition(scrollPositions, tabId)
          /\ displays' = Unmounted(displays, tabId)
          /\ timers' = Detached(timers, tabId)

ActiveAfterClick(active, tabId) == IF active = tabId THEN active ELSE tabId

handleTabClick(tabId) ==
  /\ activeTabId' = ActiveAfterClick(activeTabId, tabId)
  /\ lastOp' = Op("handleTabClick", tabId, "", activeTabId # tabId, 0)
  /\ UNCHANGED <<bibleData, tabs, searchQuery, searchMode, selected, history,
                 scrollPositions, now>>
  /\ UNCHANGED navVars
  /\ UNCHANGED scrollVars

\* the ids onTabClose may be called with: those of the open tabs and the
\* string "search-input"
ClosableInputs(ts) == TabIds(ts) \cup {SearchInputId}

Next ==
  \/ \E query \in Queries : SetSearchQuery(query)
  \/ \E mode \in SearchModes : SetSearchMode(mode)
  \/ \E query \in Queries : handleSearch(query)
  \/ \E co \in InputCoordinates(bibleData), hv \in Highlights(tabs) :
       handleVerseSelection(co.testament, co.book, co.chapter, hv)
  \/ \E entry \in 1..Len(history) : handleHistoryItemClick(entry)
  \/ \E co \in DisplayedCoordinates(tabs), direction \in Directions :
       handleChapterNavigation(co.testament, co.book, co.chapter, direction)
  \/ \E tabId \in ClosableInputs(tabs) : handleTabClose(tabId)
  \/ \E tabId \in TabIds(tabs) : handleTabClick(tabId)

Spec == Init /\ [][Next]_vars

----------------------------------------------------------------------------
(* Scroll positions: the debounce of VerseDisplay (a 1000 ms timer set by    *)
(* every scroll event) and handleScroll of App, which the timer calls.       *)

\* the offsets the content of a verse tab may be scrolled to
Offsets == {0, 40, 80}

\* the scrollPosition prop of the VerseDisplay of a tab: the entry of the map,
\* the default offset when the map has none
ScrollPositionProp(positions, tabId) ==
  IF tabId \in DOMAIN positions THEN positions[tabId] ELSE 0

\* a VerseDisplay as mounted: scrollTop is set to the scrollPosition prop by
\* its effect, scrollTimeout is null (0); seenTimeout and seenPosition are the
\* scrollTimeout and scrollPosition of the render whose handleScroll is
\* attached; events, quiet and writes describe the burst of scroll events in
\* progress (quiet: a quiet window has passed since the last event)
NewDisplay(position) ==
  [scrollTop |-> position, scrollTimeout |-> 0, seenTimeout |-> 0,
   seenPosition |-> position, events |-> 0, quiet |-> TRUE, writes |-> 0]

DisplayOf(ds, positions, tabId) ==
  IF tabId \in DOMAIN ds THEN ds[tabId] ELSE NewDisplay(ScrollPositionProp(positions, tabId))

WithDisplay(ds, tabId, d) ==
  [i \in DOMAIN ds \cup {tabId} |-> IF i = tabId THEN d ELSE ds[i]]

\* { ...prev, [tabId]: position }
WithPosition(positions, tabId, position) ==
  [i \in DOMAIN positions \cup {tabId} |-> IF i = tabId THEN position ELSE positions[i]]

\* saveScrollPosition(tabId, position): setScrollPosition of the store
saveScrollPosition(store, tabId, position) == WithPosition(store, tabId, position)

clearTimeout(ts, handle) == SelectSeq(ts, LAMBDA timer : timer.handle # handle)

VerseTabIds(ts) == {ts[i].id : i \in {j \in 1..Len(ts) : ts[j].type = "verse"}}

\* handleScroll of VerseDisplay on a scroll event that moved the content to
\* offset. rendered: the component was rendered again since the last state
\* update, so the handler sees the latest scrollTimeout and scrollPosition;
\* otherwise it is the handler of the earlier render. No scroll event comes
\* while a timer of the tab is due: a due callback runs first.
VerseDisplayHandleScroll(tabId, offset, rendered) ==
  LET d == DisplayOf(displays, scrollPositions, tabId)
      seenTimeout == IF rendered THEN d.scrollTimeout ELSE d.seenTimeout
      seenPosition == IF rendered THEN ScrollPositionProp(scrollPositions, tabId)
                      ELSE d.seenPosition
      timeout == timerSeq + 1
  IN
  /\ timerSeq < MaxTimers
  /\ offset # d.scrollTop
  /\ \A k \in 1..Len(timers) : timers[k].tabId = tabId => ~timers[k].due
  /\ timers' = Append(clearTimeout(timers, seenTimeout),
                      [handle |-> timeout, tabId |-> tabId, position |-> seenPosition,
                       attached |-> TRUE, due |-> FALSE])
  /\ timerSeq' = timeout
  /\ displays' = WithDisplay(displays, tabId,
                             [scrollTop |-> offset, scrollTimeout |-> timeout,
                              seenTimeout |-> seenTimeout, seenPosition |-> seenPosition,
                              events |-> IF d.quiet THEN 1 ELSE 2,
                              quiet |-> FALSE,
                              writes |-> IF d.quiet THEN 0 ELSE d.writes])
  /\ lastOp' = Op("VerseDisplay.handleScroll", tabId,
                   IF rendered THEN "rendered" ELSE "stale", TRUE, 0)
  /\ UNCHANGED <<bibleData, tabs, activeTabId, searchQuery, searchMode, selected, history,
                 scrollPositions, now, savedPositions>>
  /\ UNCHANGED navVars

\* 1000 ms pass without a scroll event: every pending timer is due, and every
\* component has been rendered with its latest state and props
QuietWindow ==
  /\ \E k \in 1..Len(timers) : ~timers[k].due
  /\ timers' = [k \in 1..Len(timers) |-> [timers[k] EXCEPT !.due = TRUE]]
  /\ displays' = [i \in DOMAIN displays |->
                    [displays[i] EXCEPT !.quiet = TRUE,
                                        !.seenTimeout = displays[i].scrollTimeout,
                                        !.seenPosition =
                                          ScrollPositionProp(scrollPositions, i)]]
  /\ lastOp' = Op("quiet", NoId, "", TRUE, 0)
  /\ UNCHANGED <<bibleData, tabs, activeTabId, searchQuery, searchMode, selected, history,
                 scrollPositions, now, timerSeq, savedPositions>>
  /\ UNCHANGED navVars

\* handleScroll of App
handleScroll(tabId, position) ==
  /\ scrollPositions' = WithPosition(scrollPositions, tabId, position)
  /\ savedPositions' = saveScrollPosition(savedPositions, tabId, position)

MutCallbackIgnoresRef(timer, scrollTop) == scrollTop # timer.position

\* contentRef.current && contentRef.current.scrollTop !== scrollPosition
CallbackWrites(timer, scrollTop) == timer.attached /\ scrollTop # timer.position

\* the callback of the timer that was set first runs
TimerFires ==
  /\ Len(timers) > 0
  /\ Head(timers).due
  /\ LET timer == Head(timers)
         d == DisplayOf(displays, scrollPositions, timer.tabId)
     IN
     /\ timers' = Tail(timers)
     /\ lastOp' = Op("timer", timer.tabId,
                      IF timer.attached THEN "attached" ELSE "detached",
                      CallbackWrites(timer, d.scrollTop), 0)
     /\ IF CallbackWrites(timer, d.scrollTop)
        THEN /\ handleScroll(timer.tabId, d.scrollTop)
             /\ displays' = WithDisplay(displays, timer.tabId,
                                        [d EXCEPT !.writes = @ + 1,
                                                  !.seenPosition = d.scrollTop])
        ELSE UNCHANGED <<scrollPositions, savedPositions, displays>>
  /\ UNCHANGED <<bibleData, tabs, activeTabId, searchQuery, searchMode, selected, history,
                 now, timerSeq>>
  /\ UNCHANGED navVars

NextScroll ==
  \/ \E co \in InputCoordinates(bibleData), hv \in Highlights(tabs) :
       handleVerseSelection(co.testament, co.book, co.chapter, hv)
  \/ \E tabId \in ClosableInputs(tabs) : handleTabClose(tabId)
  \/ \E tabId \in VerseTabIds(tabs), offset \in Offsets, rendered \in BOOLEAN :
       VerseDisplayHandleScroll(tabId, offset, rendered)
  \/ QuietWindow
  \/ TimerFires

ScrollSpec == Init /\ [][NextScroll]_vars

----------------------------------------------------------------------------
(* The chapter navigator on its own: a walk over every corpus of the bounds, *)
(* each step one call of findAdjacentChapter from where the walk stands.     *)

InitNav ==
  /\ bibleData \in Corpora
  /\ InitSession(bibleData, DefaultInitialTab(bibleData), <<>>)
  /\ \E co \in Coordinates(bibleData) : navCur = Some(co.testament, co.book, co.chapter)
  /\ navFrom = Null
  /\ navDir = ""
  /\ navRes = Null

NavStep(direction) ==
  LET adjacentChapter ==
        findAdjacentChapter(bibleData, navCur.testament, navCur.book, navCur.chapter,
                            direction)
  IN
  /\ navFrom' = navCur
  /\ navDir' = direction
  /\ navRes' = adjacentChapter
  /\ navCur' = IF adjacentChapter.kind = "some" THEN adjacentChapter ELSE navCur
  /\ UNCHANGED bibleData
  /\ UNCHANGED sessionVars
  /\ UNCHANGED scrollVars

NextNav ==
  \/ NavStep("next")
  \/ NavStep("prev")

NavSpec == InitNav /\ [][NextNav]_vars

----------------------------------------------------------------------------
(* The chapter navigator called on any coordinate a caller may hold, among   *)
(* them coordinates whose testament or book the corpus has not.              *)

InitProbe ==
  /\ bibleData \in Corpora
  /\ InitSession(bibleData, DefaultInitialTab(bibleData), <<>>)
  /\ NavIdle

Probe(co, direction) ==
  /\ navFrom' = Some(co.testament, co.book, co.chapter)
  /\ navDir' = direction
  /\ navRes' = findAdjacentChapter(bibleData, co.testament, co.book, co.chapter, direction)
  /\ UNCHANGED navCur
  /\ UNCHANGED bibleData
  /\ UNCHANGED sessionVars
  /\ UNCHANGED scrollVars

NextProbe == \E co \in InputCoordinates(bibleData), direction \in Directions : Probe(co, direction)

ProbeSpec == InitProbe /\ [][NextProbe]_vars

----------------------------------------------------------------------------
(* Properties *)

PermanentTypes == {"navigation", "search-input"}

\* the types of the tabs activeTabId names
ActiveTabTypes == {tabs[i].type : i \in {j \in 1..Len(tabs) : tabs[j].id = activeTabId}}

\* C1: after every operation activeTabId is the id of a tab in tabs, and after
\* closing the active (closable) tab activeTabId is not the closed id.
C1_ActiveTabIsOpen ==
  /\ activeTabId \in TabIds(tabs)
  /\ (lastOp.op = "handleTabClose" /\ lastOp.info = "active" /\ lastOp.done)
       => activeTabId # lastOp.id

\* a closable tab was closed while it was the active one
C1_Witness ==
  /\ lastOp.op = "handleTabClose"
  /\ lastOp.info = "active"
  /\ lastOp.done
  /\ lastOp.id \notin TabIds(tabs)
  /\ activeTabId = tabs[Len(tabs)].id

\* C2: tabs holds exactly one navigation tab and exactly one search-input tab,
\* and they are its first two elements, in that order.
C2_PermanentTabsFirst ==
  /\ Len(tabs) >= 2
  /\ tabs[1].id = NavigationId /\ tabs[1].type = "navigation"
  /\ tabs[2].id = SearchId /\ tabs[2].type = "search-input"
  /\ \A i \in 3..Len(tabs) : tabs[i].type \notin PermanentTypes

\* closing a permanent tab was attempted after tabs were opened and closed
C2_Witness ==
  /\ lastOp.op = "handleTabClose"
  /\ lastOp.id \in {NavigationId, SearchId}
  /\ Len(history) >= 2
  /\ Len(tabs) = 2

\* C3: no entry of the history log has the id or the type of a permanent tab.
C3_NoPermanentTabInHistory ==
  \A i \in 1..Len(history) :
    /\ history[i].type \notin PermanentTypes
    /\ history[i].id \notin {NavigationId, SearchId}

\* C4: a chapter navigation made while the active tab is no verse tab changes
\* neither tabs nor activeTabId nor history.
C4_NonVerseNavigationIsNoOp ==
  [][(lastOp'.op = "handleChapterNavigation" /\ "verse" \notin ActiveTabTypes)
       => UNCHANGED <<tabs, activeTabId, history>>]_vars

\* C5: a chapter navigation keeps the number of tabs, the id (and type and
\* collapse state) of every tab and activeTabId; a tab that activeTabId does
\* not name is left as it was.
C5_NavigationKeepsTabIds ==
  [][lastOp'.op = "handleChapterNavigation"
       => /\ Len(tabs') = Len(tabs)
          /\ activeTabId' = activeTabId
          /\ \A i \in 1..Len(tabs) :
               /\ tabs'[i].id = tabs[i].id
               /\ tabs'[i].type = tabs[i].type
               /\ tabs'[i].isCollapsed = tabs[i].isCollapsed
               /\ tabs'[i].searchOptions = tabs[i].searchOptions
               /\ tabs[i].id # activeTabId => tabs'[i] = tabs[i]]_vars

\* a navigation replaced the chapter of the active verse tab in place, beside
\* another open closable tab
C5_Witness ==
  /\ lastOp.op = "handleChapterNavigation"
  /\ lastOp.done
  /\ Len(tabs) >= 4
  /\ \E i \in 1..Len(tabs) :
       /\ tabs[i].id = activeTabId
       /\ tabs[i].type = "verse"
       /\ tabs[i].id.testament # tabs[i].content.testament

\* the sequence s without its element at position k
WithoutIndex(s, k) == [i \in 1..(Len(s) - 1) |-> IF i < k THEN s[i] ELSE s[i + 1]]

\* C6: closing a closable tab removes exactly that tab and keeps the others in
\* order; activeTabId becomes the id of the last remaining tab when the closed
\* tab was active, and is unchanged otherwise.
C6_CloseRemovesExactlyThatTab ==
  [][(/\ lastOp'.op = "handleTabClose"
      /\ lastOp'.id \in TabIds(tabs)
      /\ ~IsPermanent(tabs, lastOp'.id))
       => /\ \E k \in 1..Len(tabs) :
               tabs[k].id = lastOp'.id /\ tabs' = WithoutIndex(tabs, k)
          /\ activeTabId' = IF activeTabId = lastOp'.id
                            THEN tabs'[Len(tabs')].id ELSE activeTabId]_vars

\* C7: handleTabClose called with "navigation" or "search-input" (or with
\* "search", the id the search-input tab bears) leaves tabs and activeTabId
\* as they were.
C7_ClosePermanentIsNoOp ==
  [][(lastOp'.op = "handleTabClose"
      /\ lastOp'.id \in {NavigationId, SearchInputId, SearchId})
       => UNCHANGED <<tabs, activeTabId>>]_vars

\* handleTabClose("navigation") ran while the navigation tab was active and a
\* closable tab was open
C7_Witness ==
  /\ lastOp.op = "handleTabClose"
  /\ lastOp.id = NavigationId
  /\ lastOp.info = "active"
  /\ activeTabId = NavigationId
  /\ Len(tabs) >= 3

\* C8: replaying a search-results entry appends the tab handleSearch would
\* build from the entry's stored query and stored mode.
C8_ReplayUsesStoredMode ==
  (/\ lastOp.op = "handleHistoryItemClick"
   /\ lastOp.done
   /\ history[lastOp.entry].type = "search-results")
    => tabs[Len(tabs)] =
         SearchResultsTab(history[lastOp.entry].content.searchQuery, bibleData,
                          history[lastOp.entry].searchOptions, now)

\* the chapters of the corpus in canonical order: testament order, then book
\* order, then chapter number
RECURSIVE FlattenFrom(_, _, _, _)
FlattenFrom(data, ti, bi, c) ==
  IF ti > Len(data) THEN <<>>
  ELSE IF bi > Len(data[ti].books) THEN FlattenFrom(data, ti + 1, 1, 1)
  ELSE IF c > Len(data[ti].books[bi].chapters) THEN FlattenFrom(data, ti, bi + 1, 1)
  ELSE <<Some(data[ti].name, data[ti].books[bi].name, c)>> \o FlattenFrom(data, ti, bi, c + 1)

Flattened(data) == FlattenFrom(data, 1, 1, 1)

\* the position of a coordinate of the corpus in the canonical order
PositionOf(data, co) == CHOOSE k \in 1..Len(Flattened(data)) : Flattened(data)[k] = co

\* findAdjacentChapter applied to a result of findAdjacentChapter
AdjacentOf(data, res, direction) ==
  IF res.kind = "some"
  THEN findAdjacentChapter(data, res.testament, res.book, res.chapter, direction)
  ELSE res

\* C9: from every chapter but the last, next followed by prev returns to the
\* chapter; from every chapter but the first, prev followed by next does.
C9_RoundTrip ==
  LET flat == Flattened(bibleData) IN
  /\ (navDir = "next" /\ navFrom # flat[Len(flat)])
       => AdjacentOf(bibleData, navRes, "prev") = navFrom
  /\ (navDir = "prev" /\ navFrom # flat[1])
       => AdjacentOf(bibleData, navRes, "next") = navFrom

\* next was taken from the last chapter of a testament into the following one
C9_Witness ==
  /\ navDir = "next"
  /\ navRes.kind = "some"
  /\ navRes.testament # navFrom.testament
  /\ navFrom.chapter > 1
  /\ AdjacentOf(bibleData, navRes, "prev") = navFrom

\* C10: next yields the immediate successor and prev the immediate predecessor
\* in the canonical order, across book and testament boundaries; in the corpus
\* A {Genesis: 2 chapters}, B {Exodus: 1 chapter}, next of (A, Genesis, 2) is
\* (B, Exodus, 1) and prev of (B, Exodus, 1) is (A, Genesis, 2).
C10_CanonicalOrder ==
  LET flat == Flattened(bibleData)
      k == PositionOf(bibleData, navFrom)
      genesis2 == Some(TestamentName(1), BookName(1, 1), 2)
      exodus1 == Some(TestamentName(2), BookName(2, 1), 1)
  IN
  /\ (navDir = "next" /\ k < Len(flat)) => navRes = flat[k + 1]
  /\ (navDir = "prev" /\ k > 1) => navRes = flat[k - 1]
  /\ (bibleData = ExampleCorpus /\ navDir = "next" /\ navFrom = genesis2)
       => navRes = exodus1
  /\ (bibleData = ExampleCorpus /\ navDir = "prev" /\ navFrom = exodus1)
       => navRes = genesis2

\* prev of (B, Exodus, 1) was computed in the corpus of the example
C10_Witness ==
  /\ bibleData = ExampleCorpus
  /\ navDir = "prev"
  /\ navFrom = Some(TestamentName(2), BookName(2, 1), 1)
  /\ navRes = Some(TestamentName(1), BookName(1, 1), 2)

\* C11: prev at the first chapter of the corpus and next at the last chapter
\* yield no chapter (no wraparound); every other chapter of the corpus has an
\* adjacent chapter of the corpus in either direction.
C11_NoneOnlyAtBoundaries ==
  LET flat == Flattened(bibleData)
      atStart == navDir = "prev" /\ navFrom = flat[1]
      atEnd == navDir = "next" /\ navFrom = flat[Len(flat)]
  IN
  /\ atStart => navRes = Null
  /\ atEnd => navRes = Null
  /\ (navDir # "" /\ ~atStart /\ ~atEnd)
       => /\ navRes.kind = "some"
          /\ [testament |-> navRes.testament, book |-> navRes.book,
              chapter |-> navRes.chapter] \in Coordinates(bibleData)

\* next was asked at the last chapter of a corpus of several testaments and
\* yielded no chapter
C11_Witness ==
  /\ navDir = "next"
  /\ Len(bibleData) >= 2
  /\ navFrom = Flattened(bibleData)[Len(Flattened(bibleData))]
  /\ navRes = Null

\* C12: after a verse tab was opened (by handleVerseSelection or by replaying a
\* verse entry) the new tab is the last tab, is active and is not collapsed,
\* and every other tab is collapsed.
C12_OnlyNewTabExpanded ==
  ((lastOp.op = "handleVerseSelection" /\ lastOp.done)
     \/ (lastOp.op = "handleHistoryItemClick" /\ lastOp.done /\ lastOp.info = "verse"))
    => /\ tabs[Len(tabs)].type = "verse"
       /\ tabs[Len(tabs)].id = activeTabId
       /\ ~tabs[Len(tabs)].isCollapsed
       /\ \A i \in 1..(Len(tabs) - 1) : tabs[i].isCollapsed

\* C13: the ids of the open tabs are pairwise distinct.
C13_TabIdsDistinct ==
  \A i, j \in 1..Len(tabs) : i # j => tabs[i].id # tabs[j].id

\* the (testament, book, chapter) a tab or a log entry shows
CoordinateOf(tab) ==
  [testament |-> tab.content.testament, book |-> tab.content.book,
   chapter |-> tab.content.chapter]

\* C16: handleVerseSelection, and the replay of a verse entry of the log, with
\* a coordinate that is no chapter of the corpus changes neither tabs nor
\* activeTabId nor history.
C16_UnresolvedOpenIsNoOp ==
  [][(\/ lastOp'.op = "handleVerseSelection" /\ lastOp'.info = "unresolved"
      \/ /\ lastOp'.op = "handleHistoryItemClick"
         /\ history[lastOp'.entry].type = "verse"
         /\ CoordinateOf(history[lastOp'.entry]) \notin Coordinates(bibleData))
       => UNCHANGED <<tabs, activeTabId, history>>]_vars

\* a verse entry of the log whose coordinate the corpus has not was replayed
\* after a tab had been opened, and no tab was opened for it
C16_Witness ==
  /\ lastOp.op = "handleHistoryItemClick"
  /\ lastOp.info = "verse"
  /\ ~lastOp.done
  /\ CoordinateOf(history[lastOp.entry]) \notin Coordinates(bibleData)
  /\ Len(tabs) >= 4
  /\ Len(history) >= 2

\* C18: a navigation to next while the active verse tab shows the last chapter
\* of the corpus, or to prev while it shows the first, changes neither tabs nor
\* activeTabId nor the sidebar selection nor history.
C18_BoundaryNavigationIsNoOp ==
  [][(/\ lastOp'.op = "handleChapterNavigation"
      /\ \E i \in 1..Len(tabs) :
           /\ tabs[i].id = activeTabId
           /\ tabs[i].type = "verse"
           /\ LET flat == Flattened(bibleData)
                  co == CoordinateOf(tabs[i])
              IN \/ lastOp'.info = "next"
                    /\ Some(co.testament, co.book, co.chapter) = flat[Len(flat)]
                 \/ lastOp'.info = "prev"
                    /\ Some(co.testament, co.book, co.chapter) = flat[1])
       => UNCHANGED <<tabs, activeTabId, selected, history>>]_vars

\* C19: after a navigation that went through, the active verse tab shows the
\* chapter adjacent (in the direction asked) to the one it showed before, with
\* the verses of that chapter.
C19_TargetFromActiveTab ==
  [][(lastOp'.op = "handleChapterNavigation" /\ lastOp'.done)
       => \A i \in 1..Len(tabs) :
            (tabs[i].id = activeTabId /\ tabs[i].type = "verse")
              => LET co == CoordinateOf(tabs[i])
                     adjacentChapter ==
                       findAdjacentChapter(bibleData, co.testament, co.book, co.chapter,
                                           lastOp'.info)
                 IN /\ adjacentChapter.kind = "some"
                    /\ CoordinateOf(tabs'[i]) =
                         [testament |-> adjacentChapter.testament,
                          book |-> adjacentChapter.book,
                          chapter |-> adjacentChapter.chapter]
                    /\ tabs'[i].content.verses =
                         LookupVerses(bibleData, adjacentChapter.testament,
                                      adjacentChapter.book, adjacentChapter.chapter)]_vars

\* C20: no handler removes or rewrites an entry of the log; an open (of a verse
\* tab or a search-results tab, direct or replayed) appends exactly the new
\* tab; a navigation of the active verse tab to an existing chapter appends
\* exactly the updated tab; every other call leaves the log as it was.
C20_HistoryAppendOnly ==
  [][/\ Len(history') >= Len(history)
     /\ SubSeq(history', 1, Len(history)) = history
     /\ lastOp'.op \in {"handleVerseSelection", "handleSearch", "handleHistoryItemClick"}
          => history' = IF lastOp'.done THEN Append(history, tabs'[Len(tabs')])
                        ELSE history
     /\ lastOp'.op = "handleChapterNavigation"
          => IF lastOp'.done /\ "verse" \in ActiveTabTypes
             THEN \E i \in 1..Len(tabs) :
                    /\ tabs[i].id = activeTabId
                    /\ tabs'[i].id = activeTabId
                    /\ history' = Append(history, tabs'[i])
             ELSE history' = history
     /\ lastOp'.op \in {"handleTabClose", "handleTabClick", "setSearchQuery",
                        "setSearchMode"}
          => history' = history]_vars

\* C17: findAdjacentChapter raises for no coordinate and direction: it yields a
\* coordinate or no chapter, also when the testament or the book of the
\* coordinate does not occur in the corpus.
C17_NeverRaises == navRes.kind \in {"some", "null"}

\* the timers of a tab that are still pending
PendingTimers(tabId) == {k \in 1..Len(timers) : timers[k].tabId = tabId}

\* C14: once a burst of scroll events of a tab is over (a quiet window has
\* passed and no timer of the tab is pending), the burst has caused exactly
\* one write of the tab's scroll position, and the position written is the
\* offset of the last event.
C14_OneWritePerBurst ==
  \A tabId \in DOMAIN displays :
    (displays[tabId].events >= 1 /\ displays[tabId].quiet /\ PendingTimers(tabId) = {})
      => /\ displays[tabId].writes = 1
         /\ tabId \in DOMAIN scrollPositions
         /\ scrollPositions[tabId] = displays[tabId].scrollTop
         /\ tabId \in DOMAIN savedPositions
         /\ savedPositions[tabId] = displays[tabId].scrollTop

\* the entries of the map an earlier session left for tabs that are not open
LeftByEarlierSession(data, tabId) ==
  /\ tabId \in DOMAIN StoredScrollPositions(<<StaleEntry(data)>>)
  /\ scrollPositions[tabId] = StoredScrollPositions(<<StaleEntry(data)>>)[tabId]

\* C15: after handleTabClose of a closable tab scrollPositions has no entry
\* for its id, and every entry of scrollPositions written in this session
\* belongs to an open tab, also after the timers set before a close have run.
C15_NoPositionForClosedTab ==
  /\ (lastOp.op = "handleTabClose" /\ lastOp.done) => lastOp.id \notin DOMAIN scrollPositions
  /\ \A tabId \in DOMAIN scrollPositions :
       tabId \in TabIds(tabs) \/ LeftByEarlierSession(bibleData, tabId)

\* the timer of a tab that was scrolled and then closed has run, and the map
\* has no entry for the tab
C15_Witness ==
  /\ lastOp.op = "timer"
  /\ lastOp.info = "detached"
  /\ lastOp.id \notin TabIds(tabs)
  /\ lastOp.id \notin DOMAIN scrollPositions
  /\ lastOp.id.stamp > 0

====
